---- MODULE Spec2Model ----
(***************************************************************************)
(* GenFinder (script/genfinder.py): a streaming-service link is resolved   *)
(* into Genius metadata and lyrics.  Python strings are modelled as        *)
(* sequences of one-character strings, so that split, strip, lower and     *)
(* join are computed character by character.                               *)
(***************************************************************************)
EXTENDS Integers, Sequences, FiniteSets, TLC

(* ------------------------------ bounds --------------------------------- *)
MaxTitleLen == 6
MaxHits == 2
MaxNameLen == 2
MaxKids == 2
MaxParts == 3

(* --------------------------- Python strings ---------------------------- *)
Whitespace == {" ", "\n"}

Sep == <<" ", "-", " ">>

NL == <<"\n">>

SeqsUpTo(S, n) == UNION {[1..k -> S] : k \in 0..n}

RECURSIVE LStrip(_)
LStrip(s) == IF s # <<>> /\ Head(s) \in Whitespace THEN LStrip(Tail(s)) ELSE s

RECURSIVE RStrip(_)
RStrip(s) ==
  IF s # <<>> /\ s[Len(s)] \in Whitespace THEN RStrip(SubSeq(s, 1, Len(s) - 1)) ELSE s

Strip(s) == RStrip(LStrip(s))

StartsAt(s, sep, i) == i + Len(sep) - 1 <= Len(s) /\ SubSeq(s, i, i + Len(sep) - 1) = sep

Find(s, sep) ==
  LET occ == {i \in 1..Len(s) : StartsAt(s, sep, i)}
  IN IF occ = {} THEN 0 ELSE CHOOSE i \in occ : \A j \in occ : i <= j

RECURSIVE Split(_, _)
Split(s, sep) ==
  LET i == Find(s, sep)
  IN IF i = 0 THEN <<s>>
     ELSE <<SubSeq(s, 1, i - 1)>> \o Split(SubSeq(s, i + Len(sep), Len(s)), sep)

RECURSIVE Join(_, _)
Join(parts, sep) ==
  IF parts = <<>> THEN <<>>
  ELSE IF Len(parts) = 1 THEN parts[1]
  ELSE parts[1] \o sep \o Join(Tail(parts), sep)

LowerChar(c) == IF c = "A" THEN "a" ELSE IF c = "B" THEN "b" ELSE c

Lower(s) == [i \in 1..Len(s) |-> LowerChar(s[i])]

Contains(hay, needle) == \E i \in 1..(Len(hay) + 1) : StartsAt(hay, needle, i)

StripAll(parts) == [i \in 1..Len(parts) |-> Strip(parts[i])]

(* --------------------------- Python values ----------------------------- *)
None == [ty |-> "none", n |-> 0, s |-> <<>>]

IntId(n) == [ty |-> "int", n |-> n, s |-> <<>>]

StrId(s) == [ty |-> "str", n |-> 0, s |-> s]

Truthy(v) == v # None /\ v # IntId(0) /\ v # StrId(<<>>)

(* ------------------------- Metadata Extractor -------------------------- *)
TitleChars == {"a", " ", "-"}

Titles == SeqsUpTo(TitleChars, MaxTitleLen)

TitleParts == {<<>>, <<"a">>, <<"b">>, <<" ">>}

PartedTitles == {Join(ps, Sep) : ps \in SeqsUpTo(TitleParts, MaxParts)} \ {<<>>}

GetSpotifyMetadataSecondPart(t) ==
  LET parts == StripAll(Split(t, Sep))
  IN IF Len(parts) >= 2 THEN <<parts[1], parts[2]>> ELSE <<t, <<>>>>

GetSpotifyMetadata(t) ==
  LET parts == StripAll(Split(t, Sep))
  IN IF Len(parts) >= 2 THEN <<parts[1], parts[Len(parts)]>> ELSE <<t, <<>>>>

GetSoundcloudMetadataSecondPart(t) ==
  LET parts == StripAll(Split(t, Sep))
  IN IF Len(parts) >= 2 THEN <<parts[2], parts[1]>> ELSE <<t, <<>>>>

GetSoundcloudMetadata(t) ==
  LET parts == StripAll(Split(t, Sep))
  IN IF Len(parts) >= 2 THEN <<Join(Tail(parts), Sep), parts[1]>> ELSE <<t, <<>>>>

(* --------------------------- Catalog Matcher --------------------------- *)
NameChars == {"A", "b"}

Names == SeqsUpTo(NameChars, MaxNameLen)

Ids == {IntId(0), IntId(7)}

Hit(name, id) == [name |-> name, id |-> id]

Hits == {Hit(nm, id) : nm \in Names, id \in Ids}

HitLists == SeqsUpTo(Hits, MaxHits)

ShortHitLists == SeqsUpTo({Hit(<<c>>, id) : c \in NameChars, id \in Ids}, MaxHits)

RECURSIVE FirstMatch(_, _, _)
FirstMatch(hits, artist_lower, k) ==
  IF k > Len(hits) THEN 0
  ELSE IF artist_lower # <<>> /\ Contains(Lower(hits[k].name), artist_lower) THEN k
  ELSE FirstMatch(hits, artist_lower, k + 1)

RECURSIVE FirstMatchCaseSensitive(_, _, _)
FirstMatchCaseSensitive(hits, artist_lower, k) ==
  IF k > Len(hits) THEN 0
  ELSE IF artist_lower # <<>> /\ Contains(hits[k].name, artist_lower) THEN k
  ELSE FirstMatchCaseSensitive(hits, artist_lower, k + 1)

SearchGeniusCaseSensitive(hits, artist_) ==
  LET k == FirstMatchCaseSensitive(hits, Lower(artist_), 1)
  IN IF k # 0 THEN hits[k].id
     ELSE IF hits # <<>> THEN hits[1].id
     ELSE None

SearchGenius(hits, artist_) ==
  LET k == FirstMatch(hits, Lower(artist_), 1)
  IN IF k # 0 THEN hits[k].id
     ELSE IF hits # <<>> THEN hits[1].id
     ELSE None

(* --------------------------- Lyrics Extractor -------------------------- *)
Texts == {<<"a">>, <<" ">>}

Text(s) ==
  [kind |-> "text", s |-> s, tag |-> "", lyric |-> FALSE, excl |-> FALSE,
   detached |-> FALSE, kids |-> <<>>]

El(tag, lyric, excl, kids) ==
  [kind |-> "el", s |-> <<>>, tag |-> tag, lyric |-> lyric, excl |-> excl,
   detached |-> FALSE, kids |-> kids]

ElKinds ==
  { <<"div", TRUE, FALSE>>, <<"div", TRUE, TRUE>>, <<"span", FALSE, TRUE>>,
    <<"span", TRUE, FALSE>>, <<"span", FALSE, FALSE>> }

TextNodes == {Text(s) : s \in Texts}

NoAdjacentText(kids) ==
  \A i \in 1..(Len(kids) - 1) : ~(kids[i].kind = "text" /\ kids[i + 1].kind = "text")

Forests(S) == {f \in SeqsUpTo(S, MaxKids) : NoAdjacentText(f)}

Level1 == {El(k[1], k[2], k[3], f) : k \in ElKinds, f \in Forests(TextNodes)}

Level2 == {El(k[1], k[2], k[3], f) : k \in ElKinds, f \in Forests(TextNodes \cup Level1)}

Pages == Forests(TextNodes \cup Level1) \cup {<<n>> : n \in Level2}

FlatPages == {<<n>> : n \in Level1}

IsContainer(n) == n.kind = "el" /\ n.tag = "div" /\ n.lyric

RECURSIVE FindContainers(_, _, _)
FindContainers(kids, prefix, i) ==
  IF i > Len(kids) THEN <<>>
  ELSE LET p == Append(prefix, i)
       IN (IF IsContainer(kids[i]) THEN <<p>> ELSE <<>>)
          \o (IF kids[i].detached THEN <<>> ELSE FindContainers(kids[i].kids, p, 1))
          \o FindContainers(kids, prefix, i + 1)

RECURSIVE NodeAt(_, _)
NodeAt(kids, path) ==
  IF Len(path) = 1 THEN kids[path[1]] ELSE NodeAt(kids[path[1]].kids, Tail(path))

ExtractNothing(n) == n

RECURSIVE ExtractExcluded(_)
ExtractExcluded(n) ==
  [n EXCEPT !.kids =
     [i \in 1..Len(n.kids) |->
        LET c == n.kids[i]
        IN IF c.detached THEN c
           ELSE IF c.excl THEN [ExtractExcluded(c) EXCEPT !.detached = TRUE]
           ELSE ExtractExcluded(c)]]

RECURSIVE ReplaceAt(_, _, _)
ReplaceAt(kids, path, new) ==
  IF Len(path) = 1 THEN [kids EXCEPT ![path[1]] = new]
  ELSE [kids EXCEPT ![path[1]] =
          [@ EXCEPT !.kids = ReplaceAt(kids[path[1]].kids, Tail(path), new)]]

RECURSIVE Strings(_, _)
Strings(kids, i) ==
  IF i > Len(kids) THEN <<>>
  ELSE (IF kids[i].detached THEN <<>>
        ELSE IF kids[i].kind = "text" THEN <<kids[i].s>>
        ELSE Strings(kids[i].kids, 1))
       \o Strings(kids, i + 1)

GetText(n, separator) == Join(Strings(n.kids, 1), separator)

RECURSIVE ScrapeLoop(_, _, _, _)
ScrapeLoop(soup, containers, k, lyrics_lines) ==
  IF k > Len(containers) THEN lyrics_lines
  ELSE LET container == ExtractExcluded(NodeAt(soup, containers[k]))
           text == Strip(GetText(container, NL))
       IN ScrapeLoop(ReplaceAt(soup, containers[k], container), containers, k + 1,
                     IF text # <<>> THEN Append(lyrics_lines, text) ELSE lyrics_lines)

ScrapeGeniusLyrics(soup) ==
  Join(ScrapeLoop(soup, FindContainers(soup, <<>>, 1), 1, <<>>), NL)

(* ------------------------ Result Composer / file ------------------------ *)
Songs ==
  [title : {<<"S", "o">>, <<"a", " ", "?">>}, primary_artist : {"Artist"},
   album : {"", "Album"}, release_date : {"", "2020"}, url : {"url"}]

NoSong == [title |-> <<>>, primary_artist |-> "", album |-> "", release_date |-> "", url |-> ""]

PrintMetadata(sg) ==
  <<"Title : ">> \o sg.title \o <<"\n", "Artist: ", sg.primary_artist>>
  \o (IF sg.album # "" THEN <<"\n", "Album : ", sg.album>> ELSE <<>>)
  \o (IF sg.release_date # "" THEN <<"\n", "Date  : ", sg.release_date>> ELSE <<>>)
  \o <<"\n", "URL   : ", sg.url>>

Output(fmt, text, keys, sg, ly) ==
  [fmt |-> fmt, text |-> text, keys |-> keys, song |-> sg, lyrics |-> ly]

NoOutput == Output("none", <<>>, {}, NoSong, <<>>)

JsonDumps(keys, sg, ly) == Output("json", <<>>, keys, sg, ly)

TextOutput(text) == Output("text", text, {}, NoSong, <<>>)

ComposeOutput(a, sg, ly) ==
  IF a.output = "json"
  THEN IF a.lyrics THEN JsonDumps({"lyrics"}, NoSong, ly)
       ELSE IF a.data THEN JsonDumps({"song"}, sg, <<>>)
       ELSE JsonDumps({"song", "lyrics"}, sg, ly)
  ELSE IF a.lyrics THEN TextOutput(ly)
       ELSE IF a.data THEN TextOutput(PrintMetadata(sg))
       ELSE TextOutput(PrintMetadata(sg) \o <<"\n", "\n">> \o ly)

SafeChars == {"S", "o", "a", " ", "-", "_", "(", ")", "."}

SelectSafe(name) == SelectSeq(name, LAMBDA c : c \in SafeChars)

SanitizeFilename(name) ==
  LET t == Strip(SelectSafe(name))
  IN [i \in 1..Len(t) |-> IF t[i] = " " THEN "_" ELSE t[i]]

FilePath(folder, name, extension) == [folder |-> folder, name |-> SanitizeFilename(name), ext |-> extension]

(* ------------------------------- state --------------------------------- *)
VARIABLES pc, args, token, track, artist, song_id, song, lyrics, output,
          stderr, stdout, files, dirs, exit_code, requests, error, nhits,
          title, hits, soup

vars == <<pc, args, token, track, artist, song_id, song, lyrics, output,
          stderr, stdout, files, dirs, exit_code, requests, error, nhits,
          title, hits, soup>>

Placeholder == "[/!\\ YOUR GENIUS ACCESS TOKEN HERE /!\\]"

Tokens == {"", Placeholder, "token"}

Args ==
  {a \in [src : {"spotify", "soundcloud"}, lyrics : BOOLEAN, data : BOOLEAN,
          output : {"text", "json"}, file : {"none", "."}] : ~(a.lyrics /\ a.data)}

Msg(prefix, body) == [prefix |-> prefix, body |-> body]

StageOrder == <<"extract", "search", "song", "lyrics">>

FatalKinds == {"credential", "extraction", "auth", "catalog", "no_match"}

Statuses == {200, 401, 500}

NoTitle == <<"None">>

Locals ==
  /\ track = <<>> /\ artist = <<>> /\ song_id = None /\ song = NoSong
  /\ lyrics = <<>> /\ output = NoOutput /\ nhits = 0

World ==
  /\ stderr = <<>> /\ stdout = <<>> /\ files = {} /\ dirs = {}
  /\ exit_code = <<>> /\ requests = <<>> /\ error = "none"

Init ==
  /\ pc = "token"
  /\ args \in Args
  /\ token \in Tokens
  /\ Locals /\ World
  /\ title = NoTitle /\ hits = <<>> /\ soup = <<>>

Die(kind, msg) ==
  /\ pc' = "exit"
  /\ error' = kind
  /\ stderr' = Append(stderr, msg)
  /\ exit_code' = <<1>>

CheckToken ==
  /\ pc = "token"
  /\ IF token = "" \/ token = Placeholder
     THEN Die("credential", Msg("[ERROR]", "Please set GENIUS_ACCESS_TOKEN in the script (line 32)."))
     ELSE pc' = "extract" /\ UNCHANGED <<error, stderr, exit_code>>
  /\ UNCHANGED <<args, token, track, artist, song_id, song, lyrics, output, stdout,
                 files, dirs, requests, nhits, title, hits, soup>>

TrackOkAlways(t) == TRUE

TrackOk(t) == t # <<>>

Extracted(m) ==
  /\ track' = m[1]
  /\ artist' = m[2]
  /\ IF TrackOk(m[1])
     THEN pc' = "search" /\ UNCHANGED <<error, stderr, exit_code>>
     ELSE Die("extraction", Msg("[ERROR]", "Could not parse metadata from provided link."))

ExtractFailed(resp, svc) ==
  /\ Die("extraction",
         Msg("[ERROR]",
             IF resp = "request_error" THEN <<"Invalid or unreachable URL", svc>>
             ELSE IF resp = "malformed" THEN <<"Malformed response", svc>>
             ELSE <<"Invalid metadata: title not found.", svc>>))
  /\ UNCHANGED <<track, artist>>

ExtractSpotify ==
  /\ pc = "extract"
  /\ args.src = "spotify"
  /\ requests' = Append(requests, "extract")
  /\ \/ \E resp \in {"request_error", "malformed", "no_title"} : ExtractFailed(resp, "Spotify")
     \/ \E t \in PartedTitles : Extracted(GetSpotifyMetadata(t))
  /\ UNCHANGED <<args, token, song_id, song, lyrics, output, stdout, files, dirs,
                 nhits, title, hits, soup>>

ExtractSoundcloud ==
  /\ pc = "extract"
  /\ args.src = "soundcloud"
  /\ requests' = Append(requests, "extract")
  /\ \/ \E resp \in {"request_error", "malformed", "no_title"} : ExtractFailed(resp, "SoundCloud")
     \/ \E t \in PartedTitles : Extracted(GetSoundcloudMetadata(t))
  /\ UNCHANGED <<args, token, song_id, song, lyrics, output, stdout, files, dirs,
                 nhits, title, hits, soup>>

Uncaught(kind, exc) ==
  /\ pc' = "exit"
  /\ error' = kind
  /\ stderr' = Append(stderr, Msg("Traceback (most recent call last):", exc))
  /\ exit_code' = <<1>>

SearchIgnores401 ==
  /\ pc = "search"
  /\ requests' = Append(requests, "search")
  /\ \E status \in Statuses :
        IF status = 401
        THEN /\ error' = "auth"
             /\ stderr' = Append(stderr, Msg("[ERROR]", "Invalid Genius API access token"))
             /\ pc' = "fetch"
             /\ UNCHANGED <<song_id, nhits, exit_code>>
        ELSE IF status # 200
        THEN /\ Uncaught("catalog", "requests.exceptions.HTTPError")
             /\ UNCHANGED <<song_id, nhits>>
        ELSE \E h \in ShortHitLists :
               LET id == SearchGenius(h, artist)
               IN /\ song_id' = id
                  /\ nhits' = Len(h)
                  /\ IF ~Truthy(id)
                     THEN Die("no_match", Msg("[ERROR]", "No matching song found on Genius."))
                     ELSE pc' = "fetch" /\ UNCHANGED <<error, stderr, exit_code>>
  /\ UNCHANGED <<args, token, track, artist, song, lyrics, output, stdout, files, dirs,
                 title, hits, soup>>

Search ==
  /\ pc = "search"
  /\ requests' = Append(requests, "search")
  /\ \E status \in Statuses :
        IF status = 401
        THEN /\ Die("auth", Msg("[ERROR]", "Invalid Genius API access token"))
             /\ UNCHANGED <<song_id, nhits>>
        ELSE IF status # 200
        THEN /\ Uncaught("catalog", "requests.exceptions.HTTPError")
             /\ UNCHANGED <<song_id, nhits>>
        ELSE \E h \in ShortHitLists :
               LET id == SearchGenius(h, artist)
               IN /\ song_id' = id
                  /\ nhits' = Len(h)
                  /\ IF ~Truthy(id)
                     THEN Die("no_match", Msg("[ERROR]", "No matching song found on Genius."))
                     ELSE pc' = "fetch" /\ UNCHANGED <<error, stderr, exit_code>>
  /\ UNCHANGED <<args, token, track, artist, song, lyrics, output, stdout, files, dirs,
                 title, hits, soup>>

NeedLyrics(a) == a.lyrics \/ ~a.data

FetchOpensFile ==
  /\ pc = "fetch"
  /\ requests' = Append(requests, "song")
  /\ \E status \in Statuses :
        IF status = 401
        THEN /\ Die("auth", Msg("[ERROR]", "Invalid Genius API access token (HTTP 401 Unauthorized)."))
             /\ UNCHANGED <<song, files, dirs>>
        ELSE IF status # 200
        THEN /\ Uncaught("catalog", "requests.exceptions.HTTPError")
             /\ UNCHANGED <<song, files, dirs>>
        ELSE \E sg \in Songs :
               /\ song' = sg
               /\ pc' = IF NeedLyrics(args) THEN "scrape" ELSE "compose"
               /\ IF args.file # "none"
                  THEN /\ dirs' = dirs \cup {args.file}
                       /\ files' = files \cup
                            {[path |-> FilePath(args.file, sg.title,
                                                IF args.output = "json" THEN "json" ELSE "txt"),
                              content |-> NoOutput]}
                  ELSE UNCHANGED <<files, dirs>>
               /\ UNCHANGED <<error, stderr, exit_code>>
  /\ UNCHANGED <<args, token, track, artist, song_id, lyrics, output, stdout,
                 nhits, title, hits, soup>>

Fetch ==
  /\ pc = "fetch"
  /\ requests' = Append(requests, "song")
  /\ \E status \in Statuses :
        IF status = 401
        THEN /\ Die("auth", Msg("[ERROR]", "Invalid Genius API access token (HTTP 401 Unauthorized)."))
             /\ UNCHANGED song
        ELSE IF status # 200
        THEN /\ Uncaught("catalog", "requests.exceptions.HTTPError")
             /\ UNCHANGED song
        ELSE \E sg \in Songs :
               /\ song' = sg
               /\ pc' = IF NeedLyrics(args) THEN "scrape" ELSE "compose"
               /\ UNCHANGED <<error, stderr, exit_code>>
  /\ UNCHANGED <<args, token, track, artist, song_id, lyrics, output, stdout, files, dirs,
                 nhits, title, hits, soup>>

ScrapeFatal ==
  /\ pc = "scrape"
  /\ requests' = Append(requests, "lyrics")
  /\ \E ok \in BOOLEAN :
        IF ok
        THEN \E p \in FlatPages :
               /\ lyrics' = ScrapeGeniusLyrics(p)
               /\ pc' = "compose"
               /\ UNCHANGED <<error, stderr, exit_code>>
        ELSE /\ Uncaught("scrape", "requests.exceptions.HTTPError")
             /\ UNCHANGED lyrics
  /\ UNCHANGED <<args, token, track, artist, song_id, song, output, stdout, files, dirs,
                 nhits, title, hits, soup>>

Scrape ==
  /\ pc = "scrape"
  /\ requests' = Append(requests, "lyrics")
  /\ \E ok \in BOOLEAN :
        IF ok
        THEN \E p \in FlatPages :
               /\ lyrics' = ScrapeGeniusLyrics(p)
               /\ UNCHANGED <<error, stderr>>
        ELSE /\ stderr' = Append(stderr, Msg("[WARNING]", "Lyrics scraping failed"))
             /\ error' = "scrape"
             /\ UNCHANGED lyrics
  /\ pc' = "compose"
  /\ UNCHANGED <<args, token, track, artist, song_id, song, output, stdout, files, dirs,
                 exit_code, nhits, title, hits, soup>>

Compose ==
  /\ pc = "compose"
  /\ output' = ComposeOutput(args, song, lyrics)
  /\ pc' = "emit"
  /\ UNCHANGED <<args, token, track, artist, song_id, song, lyrics, stderr, stdout, files,
                 dirs, exit_code, requests, error, nhits, title, hits, soup>>

Line(kind, out) == [kind |-> kind, out |-> out]

Emit ==
  /\ pc = "emit"
  /\ IF args.file # "none"
     THEN /\ dirs' = dirs \cup {args.file}
          /\ files' = files \cup
               {[path |-> FilePath(args.file, song.title,
                                   IF args.output = "json" THEN "json" ELSE "txt"),
                 content |-> output]}
          /\ stdout' = Append(stdout, Line("[FICHIER SAUVE]", NoOutput))
     ELSE /\ stdout' = Append(stdout, Line("output", output))
          /\ UNCHANGED <<files, dirs>>
  /\ pc' = "exit"
  /\ exit_code' = <<0>>
  /\ UNCHANGED <<args, token, track, artist, song_id, song, lyrics, output, stderr,
                 requests, error, nhits, title, hits, soup>>

Blocking == [extract |-> "extract", search |-> "search", fetch |-> "song", scrape |-> "lyrics"]

Interrupt ==
  /\ pc \in DOMAIN Blocking
  /\ requests' = Append(requests, Blocking[pc])
  /\ stdout' = Append(stdout, Line("Cancelled by user.", NoOutput))
  /\ error' = "interrupt"
  /\ pc' = "exit"
  /\ exit_code' = <<0>>
  /\ UNCHANGED <<args, token, track, artist, song_id, song, lyrics, output, stderr, files,
                 dirs, nhits, title, hits, soup>>

Next ==
  \/ CheckToken
  \/ ExtractSpotify
  \/ ExtractSoundcloud
  \/ Search
  \/ Fetch
  \/ Scrape
  \/ Compose
  \/ Emit
  \/ Interrupt

Spec == Init /\ [][Next]_vars

(* ------------- the pure functions, each applied to a drawn input -------- *)
PlainArgs == {a \in Args : ~a.lyrics /\ ~a.data /\ a.output = "text" /\ a.file = "none"}

InitExtract ==
  /\ pc = "call"
  /\ args \in PlainArgs
  /\ token = "token"
  /\ Locals /\ World
  /\ title \in (Titles \cup PartedTitles) \ {<<>>}
  /\ hits = <<>> /\ soup = <<>>

CallSpotifyMetadata ==
  /\ pc = "call"
  /\ args.src = "spotify"
  /\ track' = GetSpotifyMetadata(title)[1]
  /\ artist' = GetSpotifyMetadata(title)[2]
  /\ pc' = "return"
  /\ UNCHANGED <<args, token, song_id, song, lyrics, output, stderr, stdout, files, dirs,
                 exit_code, requests, error, nhits, title, hits, soup>>

CallSoundcloudMetadata ==
  /\ pc = "call"
  /\ args.src = "soundcloud"
  /\ track' = GetSoundcloudMetadata(title)[1]
  /\ artist' = GetSoundcloudMetadata(title)[2]
  /\ pc' = "return"
  /\ UNCHANGED <<args, token, song_id, song, lyrics, output, stderr, stdout, files, dirs,
                 exit_code, requests, error, nhits, title, hits, soup>>

NextExtract ==
  \/ CallSpotifyMetadata
  \/ CallSoundcloudMetadata

SpecExtract == InitExtract /\ [][NextExtract]_vars

InitMatch ==
  /\ pc = "call"
  /\ args \in {a \in PlainArgs : a.src = "spotify"}
  /\ token = "token"
  /\ track = <<"a">> /\ artist \in Names
  /\ song_id = None /\ song = NoSong /\ lyrics = <<>> /\ output = NoOutput /\ nhits = 0
  /\ World
  /\ title = NoTitle /\ hits \in HitLists /\ soup = <<>>

CallSearchGenius ==
  /\ pc = "call"
  /\ song_id' = SearchGenius(hits, artist)
  /\ nhits' = Len(hits)
  /\ pc' = "return"
  /\ UNCHANGED <<args, token, track, artist, song, lyrics, output, stderr, stdout, files,
                 dirs, exit_code, requests, error, title, hits, soup>>

NextMatch == CallSearchGenius

SpecMatch == InitMatch /\ [][NextMatch]_vars

InitLyrics ==
  /\ pc = "call"
  /\ args \in {a \in PlainArgs : a.src = "spotify"}
  /\ token = "token"
  /\ Locals /\ World
  /\ title = NoTitle /\ hits = <<>> /\ soup \in Pages

CallScrapeGeniusLyrics ==
  /\ pc = "call"
  /\ lyrics' = ScrapeGeniusLyrics(soup)
  /\ pc' = "return"
  /\ UNCHANGED <<args, token, track, artist, song_id, song, output, stderr, stdout, files,
                 dirs, exit_code, requests, error, nhits, title, hits, soup>>

NextLyrics == CallScrapeGeniusLyrics

SpecLyrics == InitLyrics /\ [][NextLyrics]_vars

(* ------------------------------ properties ----------------------------- *)
Matches(i) == artist # <<>> /\ Contains(Lower(hits[i].name), Lower(artist))

(* C1: the matcher returns the id of the first hit, in the order returned,  *)
(* whose lower-cased primary-artist name contains the lower-cased query     *)
(* artist; with an empty query artist or no such hit it returns the id of   *)
(* the first hit; it returns None only when the hit list is empty.          *)
C1_MatcherSelection ==
  pc = "return" =>
    /\ \A i \in 1..Len(hits) :
          (Matches(i) /\ \A j \in 1..(i - 1) : ~Matches(j)) => song_id = hits[i].id
    /\ ((hits # <<>> /\ \A i \in 1..Len(hits) : ~Matches(i)) => song_id = hits[1].id)
    /\ (song_id = None <=> hits = <<>>)

C1_Witness ==
  /\ pc = "return" /\ Len(hits) = 2
  /\ ~Matches(1) /\ Matches(2)
  /\ hits[2].name # artist
  /\ hits[1].id # hits[2].id /\ song_id = hits[2].id

HasPrefix(log, prefix) == \E i \in 1..Len(log) : log[i].prefix = prefix

(* C2: every fatal error kind ends the run with an [ERROR]-prefixed message *)
(* on the error stream and a non-zero exit status.                          *)
C2_FatalIsLabelled ==
  (pc = "exit" /\ error \in FatalKinds) =>
    (exit_code = <<1>> /\ HasPrefix(stderr, "[ERROR]"))

Emitted ==
  IF args.file = "none"
  THEN stdout # <<>> /\ stdout[Len(stdout)] = Line("output", output)
  ELSE \E f \in files : f.content = output

(* C3: a failed lyrics fetch does not abort: a [WARNING] is written, the    *)
(* lyrics used are the empty string, the output is composed and emitted     *)
(* (metadata block plus empty lyrics section in combined text view) and     *)
(* the run exits with status 0.                                             *)
C3_ScrapeFailureDegrades ==
  error = "scrape" =>
    /\ HasPrefix(stderr, "[WARNING]")
    /\ lyrics = <<>>
    /\ pc \in {"compose", "emit", "exit"}
    /\ pc \in {"emit", "exit"} =>
         /\ output # NoOutput
         /\ (~args.lyrics /\ ~args.data /\ args.output = "text") =>
              output.text = PrintMetadata(song) \o <<"\n", "\n">>
         /\ (args.lyrics /\ args.output = "text") => output.text = <<>>
         /\ args.output = "json" => output.lyrics = <<>>
    /\ pc = "exit" => (exit_code = <<0>> /\ Emitted)

C3_Witness ==
  /\ pc = "exit" /\ error = "scrape"
  /\ ~args.lyrics /\ ~args.data /\ args.output = "text"
  /\ stdout # <<>>

(* C4: after a successful search the run ends with the 'no matching song    *)
(* found' error exactly when the search yielded zero hits; with any         *)
(* non-empty hit list it proceeds to the Song Fetcher.                      *)
C4_NoMatchIffNoHits ==
  /\ error = "no_match" => nhits = 0
  /\ pc \in {"fetch", "scrape", "compose", "emit"} => nhits > 0

IsPrefix(a, b) == Len(a) <= Len(b) /\ SubSeq(b, 1, Len(a)) = a

(* C5: the stages issue their requests in the fixed order extractor,        *)
(* matcher, song fetcher, lyrics extractor, each at most once, and once a   *)
(* stage other than the lyrics extractor has failed no later stage issues   *)
(* a request and nothing is composed or emitted.                            *)
C5_SingleShotInOrder ==
  /\ IsPrefix(requests, StageOrder)
  /\ error \in FatalKinds =>
       /\ pc = "exit"
       /\ output = NoOutput /\ stdout = <<>> /\ files = {}
       /\ error = "credential" => requests = <<>>
       /\ error = "extraction" => requests = <<"extract">>
       /\ error = "no_match" => requests = <<"extract", "search">>
       /\ error \in {"auth", "catalog"} => Len(requests) \in {2, 3}

C5_Witness ==
  /\ pc = "exit" /\ error = "auth"
  /\ requests = <<"extract", "search">>
  /\ NeedLyrics(args)

Issued(stage) == \E i \in 1..Len(requests) : requests[i] = stage

(* C6: whenever the Catalog Matcher is invoked the track passed to it is a  *)
(* non-empty string; an empty track ends the run as an extraction failure   *)
(* before any search request.                                               *)
C6_TrackNeverEmptyAtMatcher ==
  /\ (pc = "search" \/ Issued("search")) => track # <<>>
  /\ track = <<>> => (pc \in {"token", "extract", "exit"} /\ ~Issued("search"))
  /\ (pc = "exit" /\ track = <<>> /\ error \notin {"credential", "interrupt"}) =>
       error = "extraction"

C6_Witness ==
  /\ pc = "exit" /\ error = "extraction"
  /\ track = <<>> /\ artist # <<>>
  /\ stderr = <<Msg("[ERROR]", "Could not parse metadata from provided link.")>>

(* C7: no partial file is written: a file exists only once the full result  *)
(* has been composed, and a run that ends in a fatal error or is cancelled  *)
(* during a network call leaves no file or folder created.                  *)
C7_NoPartialFile ==
  /\ (files # {} \/ dirs # {}) =>
       /\ pc = "exit"
       /\ output = ComposeOutput(args, song, lyrics)
       /\ \A f \in files : f.content = output
  /\ (error \in FatalKinds \cup {"interrupt"}) => (files = {} /\ dirs = {})

C7_Witness ==
  /\ pc = "exit" /\ error = "interrupt"
  /\ args.file # "none"
  /\ requests = StageOrder
  /\ files = {}

(* C8: Spotify titles: with two or more parts, track is the first part      *)
(* trimmed and artist the last part trimmed; with one part, track is the    *)
(* whole title and artist is empty.                                         *)
C8_SpotifySplit ==
  (pc = "return" /\ args.src = "spotify") =>
    LET parts == Split(title, Sep)
    IN IF Len(parts) >= 2
       THEN track = Strip(parts[1]) /\ artist = Strip(parts[Len(parts)])
       ELSE track = title /\ artist = <<>>

C8_Witness ==
  /\ pc = "return" /\ args.src = "spotify"
  /\ Len(Split(title, Sep)) >= 3
  /\ track # <<>> /\ artist # <<>> /\ track # artist

(* C9 as stated: SoundCloud titles: with two or more parts, artist is the   *)
(* first part trimmed and track is the remaining parts rejoined with the    *)
(* separator and then trimmed; with one part, track is the whole title.     *)
C9_SoundcloudSplitAsStated ==
  (pc = "return" /\ args.src = "soundcloud") =>
    LET parts == Split(title, Sep)
    IN IF Len(parts) >= 2
       THEN artist = Strip(parts[1]) /\ track = Strip(Join(Tail(parts), Sep))
       ELSE track = title /\ artist = <<>>

(* C9 amended: the remaining parts are each trimmed and then rejoined with  *)
(* the separator; the joined track is not trimmed again.                    *)
C9_SoundcloudSplit ==
  (pc = "return" /\ args.src = "soundcloud") =>
    LET parts == Split(title, Sep)
    IN IF Len(parts) >= 2
       THEN /\ artist = Strip(parts[1])
            /\ track = Join([i \in 1..(Len(parts) - 1) |-> Strip(parts[i + 1])], Sep)
       ELSE track = title /\ artist = <<>>

C9_Witness ==
  /\ pc = "return" /\ args.src = "soundcloud"
  /\ Len(Split(title, Sep)) >= 3
  /\ track # Strip(track)

RECURSIVE KeptStrings(_, _)
KeptStrings(kids, i) ==
  IF i > Len(kids) THEN <<>>
  ELSE (IF kids[i].kind = "text" THEN <<kids[i].s>>
        ELSE IF kids[i].excl THEN <<>>
        ELSE KeptStrings(kids[i].kids, 1))
       \o KeptStrings(kids, i + 1)

ContainerText(n) == Strip(Join(KeptStrings(n.kids, 1), NL))

ContainerTexts ==
  LET paths == FindContainers(soup, <<>>, 1)
  IN [k \in 1..Len(paths) |-> ContainerText(NodeAt(soup, paths[k]))]

(* C10: the extracted lyrics are the single-newline join, in document       *)
(* order, of the lyric containers' texts, each computed without its         *)
(* exclude-marked descendants and trimmed, empty ones contributing nothing. *)
C10_LyricsJoin ==
  pc = "return" =>
    lyrics = Join(SelectSeq(ContainerTexts, LAMBDA t : t # <<>>), NL)

C10_Witness ==
  /\ pc = "return"
  /\ Len(ContainerTexts) = 2
  /\ ContainerTexts[2] = <<>>
  /\ soup[1].excl = FALSE /\ soup[1].kids[1].excl
  /\ soup[1].kids[1].kids # <<>>
  /\ lyrics = <<"a">>

====
